---------------------------- MODULE Spec2Model ----------------------------
(***************************************************************************)
(* A model of extract_payslip.py: the payslip payment-details extractor.   *)
(*                                                                         *)
(* Text is modelled character by character: a Python str is a sequence of  *)
(* one-character strings, so that str.strip, str.startswith, the `in`      *)
(* substring test, str.split and the regular expressions of PatternConfig  *)
(* are computed on the characters, as the code computes them.              *)
(*                                                                         *)
(* Specifications:                                                         *)
(*   Spec           one run of main() over the documents found             *)
(*   SpecDate       DateParser.parse_reference_date on one token           *)
(*   SpecPayPeriod  PayPeriodParser.extract on one page                    *)
(*   SpecPayment    PaymentParser.extract on one page, line by line        *)
(*   SpecSummary    SummaryParser.extract on one page                      *)
(***************************************************************************)
EXTENDS Integers, Sequences, FiniteSets, TLC

VARIABLES
    pc,          \* control position of the specification at hand
    pdf_files,   \* the documents find_pdf_files() returns, in its order
    doc_idx,     \* process_all_pdfs: the number of the document the loop is at
    page_idx,    \* PDFProcessor.process: the number of the page the loop is at
    payments,    \* PDFProcessor.payments of the document being processed
    summaries,   \* PDFProcessor.summaries of the document being processed
    all_payments,   \* PayslipProcessor.all_payments
    all_summaries,  \* PayslipProcessor.all_summaries
    returned,    \* what process_all_pdfs returned to main, once it has
    output_file, \* payslip_details.xlsx: its two sheets, once written
    console,     \* the messages printed so far
    attempted,   \* the names of the documents _process_single_pdf was called on (history)
    ref_date,    \* DateParser.parse_reference_date: its argument
    work_date,   \* DateParser.parse_reference_date: its result
    lines,       \* the parsers' argument: the lines of one page
    pay_period_info,  \* PayPeriodParser.extract: the PayPeriodInfo returned
    i,           \* PaymentParser.extract: the number of the line the loop is at
    in_payments_section,  \* PaymentParser.extract: its flag
    found,       \* PaymentParser.extract: its local list, payments
    captured,    \* the numbers of the lines appended to found (history)
    summary_out  \* SummaryParser.extract: the record returned, or the exception

mainVars == <<pdf_files, doc_idx, page_idx, payments, summaries, all_payments,
              all_summaries, returned, output_file, console, attempted>>

dateVars == <<ref_date, work_date>>

pageVars == <<lines, pay_period_info, i, in_payments_section, found, captured, summary_out>>

vars == <<pc, mainVars, dateVars, pageVars>>

(***************************************************************************)
(* Characters and strings                                                  *)
(***************************************************************************)

DigitChars == <<"0", "1", "2", "3", "4", "5", "6", "7", "8", "9">>

UpperChars == <<"A", "B", "C", "D", "E", "F", "G", "H", "I", "J", "K", "L", "M", "N", "O", "P", "Q", "R", "S", "T", "U", "V", "W", "X", "Y", "Z">>

LowerChars == <<"a", "b", "c", "d", "e", "f", "g", "h", "i", "j", "k", "l", "m", "n", "o", "p", "q", "r", "s", "t", "u", "v", "w", "x", "y", "z">>

Range(s) == {s[n] : n \in DOMAIN s}

\* \d of the re module, on the ASCII characters of the model
Digit == Range(DigitChars)

\* [\d.] of PAYMENT_PATTERN and the summary patterns
NumberChar == Digit \cup {"."}

\* \w of the re module: letters, digits and the underscore
WordChar == Range(UpperChars) \cup Range(LowerChars) \cup Digit \cup {"_"}

\* \s of the re module, and what str.strip() removes
Whitespace == {" ", "\t", "\r", "\f"}

DigitVal(c) == (CHOOSE n \in 1..10 : DigitChars[n] = c) - 1

\* int() of a string of digits
RECURSIVE ToNat(_)
ToNat(s) ==
    IF s = <<>> THEN 0
    ELSE ToNat(SubSeq(s, 1, Len(s) - 1)) * 10 + DigitVal(s[Len(s)])

\* str.lower() of one character
LowerChar(c) ==
    IF c \in Range(UpperChars)
    THEN LowerChars[CHOOSE n \in 1..26 : UpperChars[n] = c]
    ELSE c

Lower(s) == [n \in DOMAIN s |-> LowerChar(s[n])]

\* s[k:].startswith(p), k counted from 1
HasAt(s, k, p) ==
    /\ k + Len(p) - 1 <= Len(s)
    /\ \A n \in 1..Len(p) : s[k + n - 1] = p[n]

\* str.startswith
StartsWith(s, p) == HasAt(s, 1, p)

\* the `in` operator on strings
Contains(s, p) == \E k \in 1..(Len(s) - Len(p) + 1) : HasAt(s, k, p)

\* the first position at or after k whose character is not in class (Len(s)+1
\* when the run reaches the end): where a greedy class+ ends
RECURSIVE RunEnd(_, _, _)
RunEnd(s, k, class) ==
    IF k <= Len(s) /\ s[k] \in class THEN RunEnd(s, k + 1, class) ELSE k

\* the last position at or before k whose character is not in class
RECURSIVE RunStart(_, _, _)
RunStart(s, k, class) ==
    IF k >= 1 /\ s[k] \in class THEN RunStart(s, k - 1, class) ELSE k

\* str.strip()
Strip(s) ==
    LET a == RunEnd(s, 1, Whitespace)
        b == RunStart(s, Len(s), Whitespace)
    IN  IF a > b THEN <<>> ELSE SubSeq(s, a, b)

Min(S) == CHOOSE x \in S : \A y \in S : x <= y

(***************************************************************************)
(* Optional values and floats                                              *)
(***************************************************************************)

None == [tag |-> "None"]

Some(v) == [tag |-> "Some", val |-> v]

(***************************************************************************)
(* DateParser                                                              *)
(***************************************************************************)

\* the month abbreviations %b matches (C locale), lower case
MonthAbbr ==
    << <<"j", "a", "n">>, <<"f", "e", "b">>, <<"m", "a", "r">>, <<"a", "p", "r">>, <<"m", "a", "y">>, <<"j", "u", "n">>,
       <<"j", "u", "l">>, <<"a", "u", "g">>, <<"s", "e", "p">>, <<"o", "c", "t">>, <<"n", "o", "v">>, <<"d", "e", "c">> >>

\* %d of strptime, the regular expression 3[0-1]|[1-2]\d|0[1-9]|[1-9]| [1-9]:
\* whether alternative a matches at the start of s
DayAlt(s, a) ==
    LET c1 == IF Len(s) >= 1 THEN s[1] ELSE "none"
        c2 == IF Len(s) >= 2 THEN s[2] ELSE "none"
        nonzero == Digit \ {"0"}
    IN  CASE a = 1 -> c1 = "3" /\ c2 \in {"0", "1"}
          [] a = 2 -> c1 \in {"1", "2"} /\ c2 \in Digit
          [] a = 3 -> c1 = "0" /\ c2 \in nonzero
          [] a = 4 -> c1 \in nonzero
          [] a = 5 -> c1 = " " /\ c2 \in nonzero

DayAltLen(a) == IF a = 4 THEN 1 ELSE 2

\* %b, matched ignoring case: the months whose abbreviation stands at p
MonthAt(s, p) == {m \in 1..12 : HasAt(Lower(s), p, MonthAbbr[m])}

\* %y, the regular expression \d\d
YearAt(s, p) == p + 1 <= Len(s) /\ s[p] \in Digit /\ s[p + 1] \in Digit

\* days of a month, as datetime checks them
DaysInMonth(year, month) ==
    CASE month \in {4, 6, 9, 11} -> 30
      [] month = 2 ->
            IF year % 4 = 0 /\ (year % 100 # 0 \/ year % 400 = 0) THEN 29 ELSE 28
      [] OTHER -> 31

\* the date strptime builds once alternative a of %d has matched: all of data
\* must be consumed and the day must exist in the month; ok = FALSE is ValueError
StrptimeDate(data, n, d, m, yy) ==
    IF Len(data) # n + 5 THEN [ok |-> FALSE]
    ELSE IF d > DaysInMonth(IF yy < 69 THEN 2000 + yy ELSE 1900 + yy, m)
    THEN [ok |-> FALSE]
    ELSE [ok |-> TRUE, year |-> IF yy < 69 THEN 2000 + yy ELSE 1900 + yy,
          month |-> m, day |-> d]

StrptimeAlt(data, a, n) ==
    StrptimeDate(data, n,
                 ToNat(SubSeq(data, IF a = 5 THEN 2 ELSE 1, n)),
                 CHOOSE mm \in MonthAt(data, n + 1) : TRUE,
                 ToNat(SubSeq(data, n + 4, n + 5)))

StrptimeFirst(data, alts) ==
    IF alts = {} THEN [ok |-> FALSE]
    ELSE StrptimeAlt(data, Min(alts), DayAltLen(Min(alts)))

\* datetime.strptime(data, '%d%b%y'): the format's regular expression,
\* (?P<d>...)(?P<b>...)(?P<y>\d\d), is matched at the start of data, by the
\* first alternative of %d that lets the rest match
Strptime(data) ==
    StrptimeFirst(data, {a \in 1..5 : /\ DayAlt(data, a)
                                      /\ MonthAt(data, DayAltLen(a) + 1) # {}
                                      /\ YearAt(data, DayAltLen(a) + 4)})

\* the decimal digits of n, zero-padded to width characters
RECURSIVE Pad(_, _)
Pad(n, width) ==
    IF width = 0 THEN <<>>
    ELSE Append(Pad(n \div 10, width - 1), DigitChars[(n % 10) + 1])

\* date_obj.strftime('%Y-%m-%d')
Strftime(date) ==
    Pad(date.year, 4) \o <<"-">> \o Pad(date.month, 2) \o <<"-">> \o Pad(date.day, 2)

\* a variant of Formatted without the fallback to the token
Formatted_NoFallback(token, date) == IF date.ok THEN Strftime(date) ELSE <<>>

Formatted(token, date) == IF date.ok THEN Strftime(date) ELSE token

\* DateParser.parse_reference_date
parse_reference_date(token) == Formatted(token, Strptime(token))

(***************************************************************************)
(* PatternConfig: the regular expressions                                  *)
(***************************************************************************)

NoMatch == [matched |-> FALSE]

\* A sequence of greedy runs class1+ class2+ ... matched from position k of s:
\* the positions <<k, k1, k2, ...>> where the runs start and end, or <<>> when
\* a run is empty.  It is used where every class is followed by a class disjoint
\* from it, so that each greedy run is the maximal one and nothing backtracks
RECURSIVE Runs(_, _, _)

Prepend(k, rest) == IF rest = <<>> THEN <<>> ELSE <<k>> \o rest

RunsFrom(s, k, classes, e) ==
    IF e = k THEN <<>> ELSE Prepend(k, Runs(s, e, Tail(classes)))

Runs(s, k, classes) ==
    IF classes = <<>> THEN <<k>>
    ELSE RunsFrom(s, k, classes, RunEnd(s, k, Head(classes)))

TwoGroups(s, r) ==
    IF r = <<>> THEN NoMatch
    ELSE [matched |-> TRUE, g1 |-> SubSeq(s, r[2], r[3] - 1),
          g2 |-> SubSeq(s, r[4], r[5] - 1)]

\* label\s+([\d.]+)\s+([\d.]+) matched at position k of s
TwoNumbersAt(s, k, label) ==
    IF ~HasAt(s, k, label) THEN NoMatch
    ELSE TwoGroups(s, Runs(s, k + Len(label),
                           <<Whitespace, NumberChar, Whitespace, NumberChar>>))

LeftmostTwoNumbers(s, label, ks) ==
    IF ks = {} THEN NoMatch ELSE TwoNumbersAt(s, Min(ks), label)

\* re.search of label\s+([\d.]+)\s+([\d.]+): the leftmost match
SearchTwoNumbers(s, label) ==
    LeftmostTwoNumbers(s, label, {k \in 1..Len(s) : TwoNumbersAt(s, k, label).matched})

PAYMENT_LABEL == <<"C", "A", "S", " ", "O", "r", "d", "P", "a", "y", " ", "(", "i", "n", "c", "C", "A", "S", "l", "o", "a", "d", "i", "n", "g", ")">>

FourGroups(s, r) ==
    IF r = <<>> THEN NoMatch
    ELSE [matched |-> TRUE, g1 |-> SubSeq(s, r[2], r[3] - 1),
          g2 |-> SubSeq(s, r[4], r[5] - 1), g3 |-> SubSeq(s, r[6], r[7] - 1),
          g4 |-> SubSeq(s, r[8], r[9] - 1)]

\* re.match(PAYMENT_PATTERN, line): the pattern
\* CAS OrdPay \(incCASloading\)\s+([\d.]+)\s+([\d.]+)\s+(\w+)\s+([\d.]+)
\* matched at the start of the line
MatchPaymentPattern(line) ==
    IF ~HasAt(line, 1, PAYMENT_LABEL) THEN NoMatch
    ELSE FourGroups(line, Runs(line, 1 + Len(PAYMENT_LABEL),
                               <<Whitespace, NumberChar, Whitespace, NumberChar,
                                 Whitespace, WordChar, Whitespace, NumberChar>>))

GROSS_PAY_LABEL == <<"G", "r", "o", "s", "s", " ", "P", "a", "y">>

\* re.search(GROSS_PAY_PATTERN, line)
SearchGrossPay(line) == SearchTwoNumbers(line, GROSS_PAY_LABEL)

TAX_LABEL == <<"T", "a", "x">>

\* re.search(TAX_PATTERN, line): ^Tax\s+([\d.]+)\s+([\d.]+).  Without
\* re.MULTILINE the anchor ^ matches at the start of the string only
SearchTax(line) == TwoNumbersAt(line, 1, TAX_LABEL)

NETT_PAY_LABEL == <<"N", "e", "t", "t", " ", "P", "a", "y">>

\* re.search(NETT_PAY_PATTERN, line)
SearchNettPay(line) == SearchTwoNumbers(line, NETT_PAY_LABEL)

BANK_LABEL == <<"C", "o", "m", "m", "o", "n", "w", "e", "a", "l", "t", "h", " ", "B", "a", "n", "k", " ", "o", "f", " ", "A", "u", "s", "t", "r", "a", "l", "i", "a">>

OneGroup(s, r) ==
    IF r = <<>> THEN NoMatch
    ELSE [matched |-> TRUE, g1 |-> SubSeq(s, r[4], r[5] - 1)]

\* Commonwealth Bank of Australia\s+\d+\s+([\d.]+) matched at position k
DisbursementAt(s, k) ==
    IF ~HasAt(s, k, BANK_LABEL) THEN NoMatch
    ELSE OneGroup(s, Runs(s, k + Len(BANK_LABEL),
                          <<Whitespace, Digit, Whitespace, NumberChar>>))

LeftmostDisbursement(line, ks) ==
    IF ks = {} THEN NoMatch ELSE DisbursementAt(line, Min(ks))

\* re.search(DISBURSEMENT_PATTERN, line)
SearchDisbursement(line) ==
    LeftmostDisbursement(line, {k \in 1..Len(line) : DisbursementAt(line, k).matched})

PAY_PERIOD_MARK == <<"P", "a", "y", " ", "P", "e", "r", "i", "o", "d">>

PAID_MARK == <<"P", "a", "i", "d">>

\* where group 3 may start once group 2 starts at ys: after a " Paid " that
\* leaves a character for either group
PaidAfter(s, ys) ==
    {b \in (ys + 1)..Len(s) : HasAt(s, b, <<" ", "P", "a", "i", "d", " ">>) /\ b + 6 <= Len(s)}

\* where group 1 may end once it starts at xs: before a " to " after which the
\* rest of the pattern matches
ToAfter(s, xs) ==
    {a \in (xs + 1)..Len(s) : HasAt(s, a, <<" ", "t", "o", " ">>) /\ PaidAfter(s, a + 4) # {}}

PayPeriodGroups(s, xs, a, b) ==
    [matched |-> TRUE, g1 |-> SubSeq(s, xs, a - 1),
     g2 |-> SubSeq(s, a + 4, b - 1), g3 |-> SubSeq(s, b + 6, Len(s))]

PayPeriodFirst(s, xs, a) == PayPeriodGroups(s, xs, a, Min(PaidAfter(s, a + 4)))

\* Pay Period (.+?) to (.+?) Paid (.+?)$ matched at position k of s: the lazy
\* groups take the shortest first group that lets the rest match, then the
\* shortest second group; the third runs to the end of the line ($).  A line
\* holds no line break (lines come from split('\n')), so `.` is any character
PayPeriodAt(s, k) ==
    IF HasAt(s, k, PAY_PERIOD_MARK \o <<" ">>)
       /\ ToAfter(s, k + Len(PAY_PERIOD_MARK) + 1) # {}
    THEN PayPeriodFirst(s, k + Len(PAY_PERIOD_MARK) + 1,
                        Min(ToAfter(s, k + Len(PAY_PERIOD_MARK) + 1)))
    ELSE NoMatch

LeftmostPayPeriod(line, ks) ==
    IF ks = {} THEN NoMatch ELSE PayPeriodAt(line, Min(ks))

\* re.search(PAY_PERIOD_PATTERN, line)
SearchPayPeriod(line) ==
    LeftmostPayPeriod(line, {k \in 1..Len(line) : PayPeriodAt(line, k).matched})

\* the number with integer digits s[1..p-1] and fraction digits s[p+1..q]
Decimal(s, p, q) ==
    [ok |-> TRUE,
     mant |-> ToNat(SubSeq(s, 1, p - 1) \o SubSeq(s, p + 1, q)),
     exp |-> q - p]

\* the number of a string whose point is at p (Len(s) + 1 when it has none) and
\* whose last digit other than a trailing zero is at last
Normalised(s, p, last) == Decimal(s, p, IF last < p THEN p ELSE last)

FloatOf(s, dots) ==
    IF Cardinality(dots) > 1 \/ Len(s) = Cardinality(dots)
    THEN [ok |-> FALSE]
    ELSE Normalised(s, IF dots = {} THEN Len(s) + 1 ELSE Min(dots),
                    RunStart(s, Len(s), {"0"}))

\* float() of a string over [\d.]: ValueError (ok = FALSE) unless it holds a
\* digit and at most one point.  The value is kept as mant / 10^exp in lowest
\* form, so that 7.6 and 7.60 are the same number
Float(s) == FloatOf(s, {n \in DOMAIN s : s[n] = "."})

(***************************************************************************)
(* Data models                                                             *)
(***************************************************************************)

PayPeriodInfo(period, paid_date) == [period |-> period, paid_date |-> paid_date]

PaymentRecord(pdf_file, page, info, work_date_, hours, rate, amount) ==
    [pdf_file |-> pdf_file, page |-> page,
     pay_period |-> info.period, paid_date |-> info.paid_date,
     work_date |-> work_date_, hours |-> hours, rate |-> rate, amount |-> amount]

SummaryRecord(pdf_file, page, info) ==
    [pdf_file |-> pdf_file, page |-> page,
     pay_period |-> info.period, paid_date |-> info.paid_date,
     gross_pay |-> None, tax |-> None, nett_pay |-> None,
     ytd_gross_pay |-> None, ytd_tax |-> None, ytd_nett_pay |-> None,
     disbursement_amount |-> None]

(***************************************************************************)
(* PayPeriodParser                                                         *)
(***************************************************************************)

PayPeriodOf(m) == PayPeriodInfo(Some(m.g1 \o <<" ", "t", "o", " ">> \o m.g2), Some(m.g3))

\* PayPeriodParser.extract, from line n on: the first line that holds both
\* markers and matches the pattern decides the result
RECURSIVE PayPeriodFrom(_, _)

\* a variant of PayPeriodLine in which a later matching line overrides
PayPeriodLine_LastWins(page_lines, n, m) ==
    IF /\ m.matched
       /\ PayPeriodFrom(page_lines, n + 1) = PayPeriodInfo(None, None)
    THEN PayPeriodOf(m)
    ELSE PayPeriodFrom(page_lines, n + 1)

PayPeriodLine(page_lines, n, m) ==
    IF /\ Contains(page_lines[n], PAY_PERIOD_MARK)
       /\ Contains(page_lines[n], PAID_MARK)
       /\ m.matched
    THEN PayPeriodOf(m)
    ELSE PayPeriodFrom(page_lines, n + 1)

PayPeriodFrom(page_lines, n) ==
    IF n > Len(page_lines) THEN PayPeriodInfo(None, None)
    ELSE PayPeriodLine(page_lines, n, SearchPayPeriod(page_lines[n]))

PayPeriodExtract(page_lines) == PayPeriodFrom(page_lines, 1)

(***************************************************************************)
(* PaymentParser                                                           *)
(***************************************************************************)

\* has_hours of PaymentParser.extract, for line n
HasHours(page_lines, n) ==
    \/ Contains(page_lines[n], <<"H", "o", "u", "r", "s">>)
    \/ (n + 1 <= Len(page_lines) /\ Contains(page_lines[n + 1], <<"H", "o", "u", "r", "s">>))

IsSectionStart(page_lines, n) ==
    StartsWith(Strip(page_lines[n]), <<"P", "a", "y", "m", "e", "n", "t", "s">>) /\ HasHours(page_lines, n)

IsSectionEnd(line) ==
    \/ StartsWith(Strip(line), <<"D", "e", "d", "u", "c", "t", "i", "o", "n", "s">>)
    \/ StartsWith(Strip(line), <<"B", "e", "n", "e", "f", "i", "t", "s">>)

\* the PaymentRecord of a matched line, appended; ValueError (branch raise)
\* when float() rejects one of its numbers
AppendPayment(st, n, pdf_filename, page_num, info, reference_date, hours, rate, amount) ==
    IF ~hours.ok \/ ~rate.ok \/ ~amount.ok
    THEN [st EXCEPT !.branch = "raise"]
    ELSE [st EXCEPT
            !.payments = Append(@, PaymentRecord(pdf_filename, page_num, info,
                            parse_reference_date(reference_date),
                            hours, rate, amount)),
            !.captured = Append(@, n),
            !.branch = "capture"]

\* a line tried as a payment line, m being re.match(PAYMENT_PATTERN, line)
TryPaymentLine(st, n, pdf_filename, page_num, info, m) ==
    IF ~m.matched THEN [st EXCEPT !.branch = "skip"]
    ELSE AppendPayment(st, n, pdf_filename, page_num, info, m.g3,
                       Float(m.g1), Float(m.g2), Float(m.g4))

\* a variant of PaymentLoopBody that passes over the lines ending the section
PaymentLoopBody_NoEnd(st, page_lines, n, pdf_filename, page_num, info) ==
    IF IsSectionStart(page_lines, n)
    THEN [st EXCEPT !.in_section = TRUE, !.branch = "enter"]
    ELSE IF ~st.in_section \/ IsSectionEnd(page_lines[n])
    THEN [st EXCEPT !.branch = "skip"]
    ELSE TryPaymentLine(st, n, pdf_filename, page_num, info,
                        MatchPaymentPattern(page_lines[n]))

\* a variant of PaymentLoopBody that leaves the section at its end and goes on,
\* so that a later section start is entered
PaymentLoopBody_Reenter(st, page_lines, n, pdf_filename, page_num, info) ==
    IF IsSectionStart(page_lines, n)
    THEN [st EXCEPT !.in_section = TRUE, !.branch = "enter"]
    ELSE IF ~st.in_section THEN [st EXCEPT !.branch = "skip"]
    ELSE IF IsSectionEnd(page_lines[n])
    THEN [st EXCEPT !.in_section = FALSE, !.branch = "skip"]
    ELSE TryPaymentLine(st, n, pdf_filename, page_num, info,
                        MatchPaymentPattern(page_lines[n]))

\* One pass of the loop of PaymentParser.extract, on line n, from the loop state
\* st = [in_section, payments, captured].  branch names the path taken:
\*   enter    the section starts (continue)
\*   break    the section ends
\*   capture  a payment line, appended
\*   raise    a payment line one of whose numbers float() rejects (ValueError)
\*   skip     any other line
\* captured lists the numbers of the lines appended so far; the code does not
\* keep it, the properties use it to tell which line a record came from
PaymentLoopBody(st, page_lines, n, pdf_filename, page_num, info) ==
    IF IsSectionStart(page_lines, n)
    THEN [st EXCEPT !.in_section = TRUE, !.branch = "enter"]
    ELSE IF ~st.in_section THEN [st EXCEPT !.branch = "skip"]
    ELSE IF IsSectionEnd(page_lines[n]) THEN [st EXCEPT !.branch = "break"]
    ELSE TryPaymentLine(st, n, pdf_filename, page_num, info,
                        MatchPaymentPattern(page_lines[n]))

RECURSIVE PaymentLoop(_, _, _, _, _, _)

PaymentLoopStart ==
    [in_section |-> FALSE, payments |-> <<>>, captured |-> <<>>, branch |-> "skip"]

PaymentLoopNext(next, page_lines, n, pdf_filename, page_num, info) ==
    IF next.branch \in {"break", "raise"} THEN next
    ELSE PaymentLoop(next, page_lines, n + 1, pdf_filename, page_num, info)

\* the loop of PaymentParser.extract from line n on, to its end, its break or
\* its exception
PaymentLoop(st, page_lines, n, pdf_filename, page_num, info) ==
    IF n > Len(page_lines) THEN [st EXCEPT !.branch = "return"]
    ELSE PaymentLoopNext(
           PaymentLoopBody(st, page_lines, n, pdf_filename, page_num, info),
           page_lines, n, pdf_filename, page_num, info)

PaymentResult(st) == [raised |-> st.branch = "raise", payments |-> st.payments]

\* PaymentParser.extract: the list returned, or the exception
PaymentExtract(page_lines, pdf_filename, page_num, info) ==
    PaymentResult(PaymentLoop(PaymentLoopStart, page_lines, 1,
                              pdf_filename, page_num, info))

(***************************************************************************)
(* SummaryParser                                                           *)
(***************************************************************************)

RECURSIVE SummaryLoop(_, _, _)

Kept(summary) == [raised |-> FALSE, summary |-> summary]

Raised(summary) == [raised |-> TRUE, summary |-> summary]

SetFloats(summary, field1, value1, field2, value2) ==
    IF ~value1.ok \/ ~value2.ok THEN Raised(summary)
    ELSE Kept([summary EXCEPT ![field1] = Some(value1), ![field2] = Some(value2)])

\* the two assignments of a matched two-number line; ValueError when float()
\* rejects one of the numbers (the record is lost with the exception)
SetTwo(summary, m, field1, field2) ==
    IF ~m.matched THEN Kept(summary)
    ELSE SetFloats(summary, field1, Float(m.g1), field2, Float(m.g2))

SetDisbursement(summary, m) ==
    IF ~m.matched THEN Kept(summary)
    ELSE SetFloats(summary, "disbursement_amount", Float(m.g1),
                   "disbursement_amount", Float(m.g1))

\* One pass of the loop of SummaryParser.extract, on one line
SummaryLoopBody(summary, line) ==
    IF StartsWith(Strip(line), GROSS_PAY_LABEL)
    THEN SetTwo(summary, SearchGrossPay(line), "gross_pay", "ytd_gross_pay")
    ELSE IF StartsWith(Strip(line), TAX_LABEL) /\ ~StartsWith(line, TAX_LABEL)
    THEN SetTwo(summary, SearchTax(line), "tax", "ytd_tax")
    ELSE IF StartsWith(Strip(line), NETT_PAY_LABEL)
    THEN SetTwo(summary, SearchNettPay(line), "nett_pay", "ytd_nett_pay")
    ELSE IF Contains(line, BANK_LABEL)
    THEN SetDisbursement(summary, SearchDisbursement(line))
    ELSE Kept(summary)

SummaryLoopNext(next, page_lines, n) ==
    IF next.raised THEN next ELSE SummaryLoop(next.summary, page_lines, n + 1)

SummaryLoop(summary, page_lines, n) ==
    IF n > Len(page_lines) THEN Kept(summary)
    ELSE SummaryLoopNext(SummaryLoopBody(summary, page_lines[n]), page_lines, n)

\* SummaryParser.extract: the record returned, or the exception
SummaryExtract(page_lines, pdf_filename, page_num, info) ==
    SummaryLoop(SummaryRecord(pdf_filename, page_num, info), page_lines, 1)

(***************************************************************************)
(* SpecDate: parse_reference_date applied to one token                     *)
(***************************************************************************)

DayParts ==
    { <<>>, <<"1">>, <<"9">>, <<"0", "1">>, <<"1", "2">>, <<"2", "9">>, <<"3", "0">>, <<"3", "1">>, <<"0", "0">>,
      <<"3", "2">>, <<" ", "1">>, <<"0", "0", "1">>, <<"1", "x">> }

MonthParts ==
    { <<>>, <<"J", "u", "l">>, <<"J", "U", "L">>, <<"j", "u", "l">>, <<"F", "e", "b">>, <<"J", "u", "n">>, <<"J", "u", "x">>, <<"J", "u", "l", "y">>, <<"0", "7">> }

YearParts == { <<>>, <<"2", "4">>, <<"2", "3">>, <<"0", "0">>, <<"6", "8">>, <<"6", "9">>, <<"2">>, <<"2", "0", "2", "4">>, <<"2", "4", " ">> }

Tokens == {d \o m \o y : d \in DayParts, m \in MonthParts, y \in YearParts}

\* the variables of the page parsers, while another specification runs
PageIdle ==
    /\ lines = <<>>
    /\ pay_period_info = PayPeriodInfo(None, None)
    /\ i = 0
    /\ in_payments_section = FALSE
    /\ found = <<>>
    /\ captured = <<>>
    /\ summary_out = None

DateIdle ==
    /\ ref_date = <<>>
    /\ work_date = None

\* the variables of a run of main(), while another specification runs
MainIdle ==
    /\ pdf_files = <<>>
    /\ doc_idx = 0
    /\ page_idx = 0
    /\ payments = <<>>
    /\ summaries = <<>>
    /\ all_payments = <<>>
    /\ all_summaries = <<>>
    /\ returned = None
    /\ output_file = None
    /\ console = <<>>
    /\ attempted = <<>>

InitDate ==
    /\ pc = "date_call"
    /\ ref_date \in Tokens
    /\ work_date = None
    /\ PageIdle
    /\ MainIdle

ParseReferenceDate ==
    /\ pc = "date_call"
    /\ work_date' = Some(parse_reference_date(ref_date))
    /\ pc' = "date_done"
    /\ UNCHANGED <<ref_date, pageVars, mainVars>>

NextDate == ParseReferenceDate

SpecDate == InitDate /\ [][NextDate]_vars

(***************************************************************************)
(* Pages: the sequences of at most n lines of a catalogue                  *)
(***************************************************************************)

RECURSIVE PagesOf(_, _)
PagesOf(catalogue, n) ==
    IF n = 0 THEN {<<>>}
    ELSE LET shorter == PagesOf(catalogue, n - 1)
         IN  shorter \cup {Append(p, l) : p \in shorter, l \in catalogue}

\* the file name and page number the parsers are called with below
FileName == "a.pdf"

PageNum == 1

(***************************************************************************)
(* SpecPayPeriod: PayPeriodParser.extract applied to one page              *)
(***************************************************************************)

MaxPeriodLines == 3

PeriodLines ==
    { <<"P", "a", "y", " ", "P", "e", "r", "i", "o", "d", " ", "0", "1", "/", "0", "7", " ", "t", "o", " ", "1", "4", "/", "0", "7", " ", "P", "a", "i", "d", " ", "1", "8", "/", "0", "7">>,
      <<"P", "a", "y", " ", "P", "e", "r", "i", "o", "d", " ", "1", "5", "/", "0", "7", " ", "t", "o", " ", "2", "8", "/", "0", "7", " ", "P", "a", "i", "d", " ", "0", "1", "/", "0", "8">>,
      <<"P", "a", "y", " ", "P", "e", "r", "i", "o", "d", " ", "A", " ", "t", "o", " ", "B", " ", "t", "o", " ", "C", " ", "P", "a", "i", "d", " ", "D", " ", "P", "a", "i", "d", " ", "E">>,
      <<" ", "N", "e", "x", "t", " ", "P", "a", "y", " ", "P", "e", "r", "i", "o", "d", " ", "1", " ", "t", "o", " ", "2", " ", "P", "a", "i", "d", " ", "3">>,
      <<"P", "a", "y", " ", "P", "e", "r", "i", "o", "d", " ", "P", "a", "i", "d">>,
      <<"P", "a", "i", "d", " ", "f", "o", "r", " ", "P", "a", "y", " ", "P", "e", "r", "i", "o", "d", " ", "1", " ", "t", "o", " ", "2">>,
      <<"E", "m", "p", "l", "o", "y", "e", "e", " ", "1", "2">> }

InitPayPeriod ==
    /\ pc = "period_call"
    /\ lines \in PagesOf(PeriodLines, MaxPeriodLines)
    /\ pay_period_info = PayPeriodInfo(None, None)
    /\ i = 0 /\ in_payments_section = FALSE /\ found = <<>> /\ captured = <<>>
    /\ summary_out = None
    /\ DateIdle
    /\ MainIdle

ExtractPayPeriod ==
    /\ pc = "period_call"
    /\ pay_period_info' = PayPeriodExtract(lines)
    /\ pc' = "period_done"
    /\ UNCHANGED <<mainVars, dateVars, lines, i, in_payments_section, found, captured, summary_out>>

NextPayPeriod == ExtractPayPeriod

SpecPayPeriod == InitPayPeriod /\ [][NextPayPeriod]_vars

(***************************************************************************)
(* SpecSummary: SummaryParser.extract applied to one page                  *)
(***************************************************************************)

MaxSummaryLines == 3

SummaryLines ==
    { <<"G", "r", "o", "s", "s", " ", "P", "a", "y", " ", "1", "2", "0", "0", ".", "0", "0", " ", "2", "4", "0", "0", "0", ".", "0", "0">>,
      <<" ", " ", "G", "r", "o", "s", "s", " ", "P", "a", "y", " ", "1", "3", "0", "0", ".", "5", " ", "2", "5", "3", "0", "0", ".", "5", "0">>,
      <<" ", " ", "T", "a", "x", " ", "2", "5", "0", ".", "0", "0", " ", "5", "0", "0", "0", ".", "0", "0">>,
      <<"T", "a", "x", " ", "2", "6", "0", " ", "5", "2", "6", "0">>,
      <<"N", "e", "t", "t", " ", "P", "a", "y", " ", "9", "5", "0", ".", "0", "0", " ", "1", "9", "0", "0", "0", ".", "0", "0">>,
      <<"C", "o", "m", "m", "o", "n", "w", "e", "a", "l", "t", "h", " ", "B", "a", "n", "k", " ", "o", "f", " ", "A", "u", "s", "t", "r", "a", "l", "i", "a", " ", "1", "2", "3", "4", "5", "6", " ", "9", "5", "0", ".", "0", "0">>,
      <<"G", "r", "o", "s", "s", " ", "P", "a", "y", " ", "1", ".", "2", ".", "3", " ", "4">>,
      <<"T", "a", "x", "a", "b", "l", "e", " ", "A", "l", "l", "o", "w", "a", "n", "c", "e", "s">> }

SampleInfo == PayPeriodInfo(Some(<<"0", "1", "/", "0", "7", " ", "t", "o", " ", "1", "4", "/", "0", "7">>), Some(<<"1", "8", "/", "0", "7">>))

InitSummary ==
    /\ pc = "summary_call"
    /\ lines \in PagesOf(SummaryLines, MaxSummaryLines)
    /\ pay_period_info \in {PayPeriodInfo(None, None), SampleInfo}
    /\ i = 0 /\ in_payments_section = FALSE /\ found = <<>> /\ captured = <<>>
    /\ summary_out = None
    /\ DateIdle
    /\ MainIdle

ExtractSummary ==
    /\ pc = "summary_call"
    /\ summary_out' = SummaryExtract(lines, FileName, PageNum, pay_period_info)
    /\ pc' = "summary_done"
    /\ UNCHANGED <<mainVars, dateVars, lines, pay_period_info, i, in_payments_section, found, captured>>

NextSummary == ExtractSummary

SpecSummary == InitSummary /\ [][NextSummary]_vars

(***************************************************************************)
(* SpecPayment: PaymentParser.extract on one page, one line per step       *)
(***************************************************************************)

MaxPaymentLines == 4

PaymentLines ==
    { <<"P", "a", "y", "m", "e", "n", "t", "s", " ", "H", "o", "u", "r", "s", " ", "R", "a", "t", "e">>,
      <<" ", "P", "a", "y", "m", "e", "n", "t", "s">>,
      <<"U", "n", "i", "t", "s", " ", "H", "o", "u", "r", "s">>,
      <<"C", "A", "S", " ", "O", "r", "d", "P", "a", "y", " ", "(", "i", "n", "c", "C", "A", "S", "l", "o", "a", "d", "i", "n", "g", ")", " ", "7", ".", "6", " ", "4", "5", ".", "5", "0", " ", "0", "1", "J", "u", "l", "2", "4", " ", "3", "4", "5", ".", "8", "0">>,
      <<"C", "A", "S", " ", "O", "r", "d", "P", "a", "y", " ", "(", "i", "n", "c", "C", "A", "S", "l", "o", "a", "d", "i", "n", "g", ")", " ", "1", ".", "2", ".", "3", " ", "4", "5", ".", "5", "0", " ", "0", "1", "J", "u", "l", "2", "4", " ", "3">>,
      <<"D", "e", "d", "u", "c", "t", "i", "o", "n", "s", " ", "A", "m", "o", "u", "n", "t">>,
      <<" ", "B", "e", "n", "e", "f", "i", "t", "s">> }

InitPayment ==
    /\ pc = "payment_loop"
    /\ lines \in PagesOf(PaymentLines, MaxPaymentLines)
    /\ pay_period_info = SampleInfo
    /\ i = 1
    /\ in_payments_section = FALSE
    /\ found = <<>>
    /\ captured = <<>>
    /\ summary_out = None
    /\ DateIdle
    /\ MainIdle

\* the loop state of PaymentParser.extract, as PaymentLoopBody takes it
LoopState ==
    [in_section |-> in_payments_section, payments |-> found,
     captured |-> captured, branch |-> "skip"]

\* the assignments of a pass that took the given branch
Taken(branch, st) ==
    /\ st.branch = branch
    /\ in_payments_section' = st.in_section
    /\ found' = st.payments
    /\ captured' = st.captured

\* one pass of the loop that takes the given branch
LoopPass(branch) ==
    /\ pc = "payment_loop"
    /\ i <= Len(lines)
    /\ Taken(branch, PaymentLoopBody(LoopState, lines, i, FileName, PageNum,
                                     pay_period_info))
    /\ UNCHANGED <<mainVars, dateVars, lines, pay_period_info, summary_out>>

EnterSection == LoopPass("enter") /\ i' = i + 1 /\ pc' = "payment_loop"

SkipLine == LoopPass("skip") /\ i' = i + 1 /\ pc' = "payment_loop"

CapturePayment == LoopPass("capture") /\ i' = i + 1 /\ pc' = "payment_loop"

EndSection == LoopPass("break") /\ i' = i /\ pc' = "payment_returned"

RaiseValueError == LoopPass("raise") /\ i' = i /\ pc' = "payment_raised"

ReturnPayments ==
    /\ pc = "payment_loop"
    /\ i > Len(lines)
    /\ pc' = "payment_returned"
    /\ UNCHANGED <<mainVars, dateVars, pageVars>>

NextPayment ==
    \/ EnterSection
    \/ SkipLine
    \/ CapturePayment
    \/ EndSection
    \/ RaiseValueError
    \/ ReturnPayments

SpecPayment == InitPayment /\ [][NextPayment]_vars

(***************************************************************************)
(* PDFProcessor                                                            *)
(***************************************************************************)

\* a variant of IsTruthy that takes only None for false
IsTruthy_NotNone(text) == text # None

\* `if text:` on what page.extract_text() returned: None and '' are false
IsTruthy(text) == text # None /\ text.val # <<>>

RECURSIVE Split(_)

SplitAt(text, breaks) ==
    IF breaks = {} THEN <<text>>
    ELSE <<SubSeq(text, 1, Min(breaks) - 1)>>
         \o Split(SubSeq(text, Min(breaks) + 1, Len(text)))

\* text.split('\n')
Split(text) == SplitAt(text, {n \in DOMAIN text : text[n] = "\n"})

\* a variant of PageNumber that counts only the pages with text
PageNumber_TextPagesOnly(pages, idx) ==
    1 + Cardinality({n \in 1..(idx - 1) : IsTruthy(pages[n].text)})

\* the page number enumerate(pdf.pages, 1) gives the page at position idx
PageNumber(pages, idx) == idx

\* a variant of PageAction that passes over a page that cannot be read
PageAction_ErrorSkipped(page) ==
    IF page.kind = "ok" /\ IsTruthy(page.text) THEN "process" ELSE "skip"

\* what becomes of the page at position idx of a document's pages:
\*   raise    page.extract_text() fails
\*   skip     it returns no text
\*   process  _process_page is called
PageAction(page) ==
    IF page.kind = "error" THEN "raise"
    ELSE IF IsTruthy(page.text) THEN "process"
    ELSE "skip"

\* the end of _process_page: the exception of either parser, or the two results
PageOutcome(extracted, summarised) ==
    [raised |-> extracted.raised \/ summarised.raised,
     payments |-> extracted.payments,
     payments_extended |-> ~extracted.raised,
     summary |-> summarised.summary]

ParseLines(page_lines, pdf_filename, page_num, period_info) ==
    PageOutcome(PaymentExtract(page_lines, pdf_filename, page_num, period_info),
                SummaryExtract(page_lines, pdf_filename, page_num, period_info))

\* PDFProcessor._process_page, as what it adds to the processor's two lists
ProcessPage(text, pdf_filename, page_num) ==
    ParseLines(Split(text), pdf_filename, page_num, PayPeriodExtract(Split(text)))

(***************************************************************************)
(* DataExporter                                                            *)
(***************************************************************************)

PaymentColumns ==
    <<"PDF File", "Page", "Pay Period", "Paid Date", "Work Date", "Hours",
      "Rate", "Amount">>

SummaryColumns ==
    <<"PDF File", "Page", "Pay Period", "Paid Date", "Gross Pay", "Tax",
      "Nett Pay", "YTD Gross Pay", "YTD Tax", "YTD Nett Pay",
      "Disbursement Amount">>

\* PaymentRecord.to_dict
PaymentToDict(p) ==
    "PDF File" :> p.pdf_file @@ "Page" :> p.page @@ "Pay Period" :> p.pay_period
    @@ "Paid Date" :> p.paid_date @@ "Work Date" :> p.work_date
    @@ "Hours" :> p.hours @@ "Rate" :> p.rate @@ "Amount" :> p.amount

\* SummaryRecord.to_dict
SummaryToDict(r) ==
    "PDF File" :> r.pdf_file @@ "Page" :> r.page @@ "Pay Period" :> r.pay_period
    @@ "Paid Date" :> r.paid_date @@ "Gross Pay" :> r.gross_pay @@ "Tax" :> r.tax
    @@ "Nett Pay" :> r.nett_pay @@ "YTD Gross Pay" :> r.ytd_gross_pay
    @@ "YTD Tax" :> r.ytd_tax @@ "YTD Nett Pay" :> r.ytd_nett_pay
    @@ "Disbursement Amount" :> r.disbursement_amount

\* pd.DataFrame()
EmptyDataFrame == [columns |-> <<>>, rows |-> <<>>]

\* pd.DataFrame(data) of a list of dicts with the given keys
DataFrame(data, columns) ==
    IF data = <<>> THEN EmptyDataFrame ELSE [columns |-> columns, rows |-> data]

\* DataFrame.empty
IsEmpty(df) == df.rows = <<>> \/ df.columns = <<>>

Frames(payments_df, summaries_df) ==
    [payments_df |-> payments_df, summaries_df |-> summaries_df]

\* DataExporter.to_dataframes
to_dataframes(payment_list, summary_list) ==
    Frames(DataFrame([n \in DOMAIN payment_list |-> PaymentToDict(payment_list[n])],
                     PaymentColumns),
           DataFrame([n \in DOMAIN summary_list |-> SummaryToDict(summary_list[n])],
                     SummaryColumns))

\* DataExporter.save_to_excel: the two sheets of the file
ExcelFile(frames) ==
    [name |-> "payslip_details.xlsx",
     sheets |-> "Payment Details" :> frames.payments_df
                @@ "Summary" :> frames.summaries_df]

(***************************************************************************)
(* PayslipProcessor and main                                               *)
(***************************************************************************)

\* a variant of Extend that replaces the list
Extend_Replacing(list, items) == items

\* list.extend
Extend(list, items) == list \o items

\* a variant of HasData that looks at both lists
HasData_AnyRecord(payment_list, summary_list) ==
    payment_list # <<>> \/ summary_list # <<>>

\* `if self.all_payments:` of process_all_pdfs
HasData(payment_list, summary_list) == payment_list # <<>>

\* what process_all_pdfs returns once every document is processed
AllFrames(payment_list, summary_list) ==
    IF HasData(payment_list, summary_list)
    THEN to_dataframes(payment_list, summary_list)
    ELSE Frames(EmptyDataFrame, EmptyDataFrame)

Say(message) == console' = Append(console, message)

\* process_all_pdfs when find_pdf_files() finds nothing
NoPdfFiles ==
    /\ pc = "start"
    /\ pdf_files = <<>>
    /\ Say([msg |-> "no PDF files found"])
    /\ returned' = Some(Frames(EmptyDataFrame, EmptyDataFrame))
    /\ pc' = "returned"
    /\ UNCHANGED <<pdf_files, doc_idx, page_idx, payments, summaries,
                   all_payments, all_summaries, output_file, attempted,
                   dateVars, pageVars>>

\* process_all_pdfs when documents are found: the loop over them starts
FoundPdfFiles ==
    /\ pc = "start"
    /\ pdf_files # <<>>
    /\ Say([msg |-> "found", count |-> Len(pdf_files)])
    /\ doc_idx' = 1
    /\ pc' = "next_pdf"
    /\ UNCHANGED <<pdf_files, page_idx, payments, summaries, all_payments,
                   all_summaries, returned, output_file, attempted,
                   dateVars, pageVars>>

\* _process_single_pdf: a PDFProcessor is made and pdfplumber.open succeeds
OpenPdf ==
    /\ pc = "next_pdf"
    /\ doc_idx <= Len(pdf_files)
    /\ pdf_files[doc_idx].opens
    /\ Say([msg |-> "processing", name |-> pdf_files[doc_idx].name])
    /\ attempted' = Append(attempted, pdf_files[doc_idx].name)
    /\ payments' = <<>>
    /\ summaries' = <<>>
    /\ page_idx' = 1
    /\ pc' = "pages"
    /\ UNCHANGED <<pdf_files, doc_idx, all_payments, all_summaries, returned,
                   output_file, dateVars, pageVars>>

\* _process_single_pdf: pdfplumber.open raises, and nothing catches it
OpenFails ==
    /\ pc = "next_pdf"
    /\ doc_idx <= Len(pdf_files)
    /\ ~pdf_files[doc_idx].opens
    /\ Say([msg |-> "processing", name |-> pdf_files[doc_idx].name])
    /\ attempted' = Append(attempted, pdf_files[doc_idx].name)
    /\ payments' = <<>>
    /\ summaries' = <<>>
    /\ pc' = "aborted"
    /\ UNCHANGED <<pdf_files, doc_idx, page_idx, all_payments, all_summaries,
                   returned, output_file, dateVars, pageVars>>

CurrentPages == pdf_files[doc_idx].pages

AtPage(action) ==
    /\ pc = "pages"
    /\ page_idx <= Len(CurrentPages)
    /\ PageAction(CurrentPages[page_idx]) = action

\* PDFProcessor.process: page.extract_text() raises, and nothing catches it
ReadFails ==
    /\ AtPage("raise")
    /\ pc' = "aborted"
    /\ UNCHANGED <<mainVars, dateVars, pageVars>>

\* PDFProcessor.process: a page without text is passed over
SkipPage ==
    /\ AtPage("skip")
    /\ page_idx' = page_idx + 1
    /\ pc' = "pages"
    /\ UNCHANGED <<pdf_files, doc_idx, payments, summaries, all_payments,
                   all_summaries, returned, output_file, console, attempted,
                   dateVars, pageVars>>

\* the assignments of _process_page, given what the parsers made of the page
AddPage(outcome) ==
    /\ payments' = IF outcome.payments_extended
                   THEN Extend(payments, outcome.payments) ELSE payments
    /\ summaries' = IF outcome.raised THEN summaries
                    ELSE Append(summaries, outcome.summary)
    /\ page_idx' = IF outcome.raised THEN page_idx ELSE page_idx + 1
    /\ pc' = IF outcome.raised THEN "aborted" ELSE "pages"

\* PDFProcessor.process: _process_page on a page with text; a ValueError of
\* float() in a parser leaves through every caller
ProcessTextPage ==
    /\ AtPage("process")
    /\ AddPage(ProcessPage(CurrentPages[page_idx].text.val,
                           pdf_files[doc_idx].name,
                           PageNumber(CurrentPages, page_idx)))
    /\ UNCHANGED <<pdf_files, doc_idx, all_payments, all_summaries, returned,
                   output_file, console, attempted, dateVars, pageVars>>

\* PDFProcessor.process returns and _process_single_pdf extends the two lists
ClosePdf ==
    /\ pc = "pages"
    /\ page_idx > Len(CurrentPages)
    /\ all_payments' = Extend(all_payments, payments)
    /\ all_summaries' = Extend(all_summaries, summaries)
    /\ Say([msg |-> "extracted", payments |-> Len(payments),
            summaries |-> Len(summaries)])
    /\ doc_idx' = doc_idx + 1
    /\ pc' = "next_pdf"
    /\ UNCHANGED <<pdf_files, page_idx, payments, summaries, returned,
                   output_file, attempted, dateVars, pageVars>>

\* process_all_pdfs after its loop, with data: the two frames are returned
ReturnFrames ==
    /\ pc = "next_pdf"
    /\ doc_idx > Len(pdf_files)
    /\ HasData(all_payments, all_summaries)
    /\ returned' = Some(AllFrames(all_payments, all_summaries))
    /\ pc' = "returned"
    /\ UNCHANGED <<pdf_files, doc_idx, page_idx, payments, summaries,
                   all_payments, all_summaries, output_file, console, attempted,
                   dateVars, pageVars>>

\* process_all_pdfs after its loop, without data
ReturnNoData ==
    /\ pc = "next_pdf"
    /\ doc_idx > Len(pdf_files)
    /\ ~HasData(all_payments, all_summaries)
    /\ Say([msg |-> "no data extracted"])
    /\ returned' = Some(AllFrames(all_payments, all_summaries))
    /\ pc' = "returned"
    /\ UNCHANGED <<pdf_files, doc_idx, page_idx, payments, summaries,
                   all_payments, all_summaries, output_file, attempted,
                   dateVars, pageVars>>

\* main: the frames are saved and the statistics and the sample printed
SaveToExcel ==
    /\ pc = "returned"
    /\ ~IsEmpty(returned.val.payments_df)
    /\ output_file' = Some(ExcelFile(returned.val))
    /\ console' = console \o
           << [msg |-> "saved", payments |-> Len(returned.val.payments_df.rows),
               summaries |-> Len(returned.val.summaries_df.rows)],
              [msg |-> "statistics"], [msg |-> "sample"] >>
    /\ pc' = "done"
    /\ UNCHANGED <<pdf_files, doc_idx, page_idx, payments, summaries,
                   all_payments, all_summaries, returned, attempted,
                   dateVars, pageVars>>

\* main: nothing to save
NothingToSave ==
    /\ pc = "returned"
    /\ IsEmpty(returned.val.payments_df)
    /\ pc' = "done"
    /\ UNCHANGED <<mainVars, dateVars, pageVars>>

(***************************************************************************)
(* Spec: one run of main() over the documents found                        *)
(***************************************************************************)

MaxDocs == 3

Page(text) == [kind |-> "ok", text |-> Some(text)]

\* a page extract_text() gives None for
NoTextPage == [kind |-> "ok", text |-> None]

\* a page extract_text() gives '' for
EmptyTextPage == Page(<<>>)

\* a page extract_text() raises on
UnreadablePage == [kind |-> "error", text |-> None]

\* a pay period, one payment and the summary lines
PayslipPage ==
    Page(<<"P", "a", "y", " ", "P", "e", "r", "i", "o", "d", " ", "0", "1", "/", "0", "7", " ", "t", "o", " ", "1", "4", "/", "0", "7", " ", "P", "a", "i", "d", " ", "1", "8", "/", "0", "7", "\n", "P", "a", "y", "m", "e", "n", "t", "s", " ", "H", "o", "u", "r", "s", " ", "R", "a", "t", "e", "\n", "C", "A", "S", " ", "O", "r", "d", "P", "a", "y", " ", "(", "i", "n", "c", "C", "A", "S", "l", "o", "a", "d", "i", "n", "g", ")", " ", "7", ".", "6", " ", "4", "5", ".", "5", "0", " ", "0", "1", "J", "u", "l", "2", "4", " ", "3", "4", "5", ".", "8", "0", "\n", "D", "e", "d", "u", "c", "t", "i", "o", "n", "s", "\n", "G", "r", "o", "s", "s", " ", "P", "a", "y", " ", "3", "4", "5", ".", "8", "0", " ", "3", "4", "5", ".", "8", "0", "\n", " ", "T", "a", "x", " ", "5", "0", " ", "5", "0", "\n", "N", "e", "t", "t", " ", "P", "a", "y", " ", "2", "9", "5", ".", "8", "0", " ", "2", "9", "5", ".", "8", "0">>)

\* two payments, the header wrapped, no pay period
TwoPaymentsPage ==
    Page(<<"P", "a", "y", "m", "e", "n", "t", "s", "\n", "U", "n", "i", "t", "s", " ", "H", "o", "u", "r", "s", "\n", "C", "A", "S", " ", "O", "r", "d", "P", "a", "y", " ", "(", "i", "n", "c", "C", "A", "S", "l", "o", "a", "d", "i", "n", "g", ")", " ", "3", " ", "4", "5", ".", "5", " ", "B", "O", "N", "U", "S", " ", "1", "3", "6", ".", "5", "0", "\n", "C", "A", "S", " ", "O", "r", "d", "P", "a", "y", " ", "(", "i", "n", "c", "C", "A", "S", "l", "o", "a", "d", "i", "n", "g", ")", " ", "7", ".", "6", " ", "4", "5", ".", "5", "0", " ", "0", "2", "J", "u", "l", "2", "4", " ", "3", "4", "5", ".", "8", "0", "\n", "B", "e", "n", "e", "f", "i", "t", "s">>)

\* a pay period and a summary line, no payment
SummaryOnlyPage ==
    Page(<<"P", "a", "y", " ", "P", "e", "r", "i", "o", "d", " ", "1", "5", "/", "0", "7", " ", "t", "o", " ", "2", "8", "/", "0", "7", " ", "P", "a", "i", "d", " ", "0", "1", "/", "0", "8", "\n", "G", "r", "o", "s", "s", " ", "P", "a", "y", " ", "1", "0", "0", " ", "4", "4", "5", ".", "8", "0">>)

\* text in which nothing matches
BlankPage == Page(<<" ">>)

\* a payment line whose hours float() rejects
MalformedPage ==
    Page(<<"P", "a", "y", "m", "e", "n", "t", "s", " ", "H", "o", "u", "r", "s", "\n", "C", "A", "S", " ", "O", "r", "d", "P", "a", "y", " ", "(", "i", "n", "c", "C", "A", "S", "l", "o", "a", "d", "i", "n", "g", ")", " ", "1", ".", "2", ".", "3", " ", "1", " ", "x", " ", "1">>)

Document(name, opens, pages) == [name |-> name, opens |-> opens, pages |-> pages]

Documents ==
    { Document("a.pdf", TRUE, <<PayslipPage>>),
      Document("b.pdf", TRUE, <<NoTextPage, TwoPaymentsPage, BlankPage>>),
      Document("c.pdf", TRUE, <<SummaryOnlyPage, EmptyTextPage>>),
      Document("d.pdf", TRUE, <<EmptyTextPage, NoTextPage>>),
      Document("e.pdf", FALSE, <<>>),
      Document("f.pdf", TRUE, <<PayslipPage, UnreadablePage, PayslipPage>>),
      Document("g.pdf", TRUE, <<MalformedPage>>) }

\* the lists of at most n documents, no document twice (the files of one
\* directory have distinct names)
RECURSIVE FileLists(_)
FileLists(n) ==
    IF n = 0 THEN {<<>>}
    ELSE FileLists(n - 1)
         \cup {Append(q, d) : q \in FileLists(n - 1), d \in Documents}

Distinct(q) == \A m, n \in DOMAIN q : m # n => q[m].name # q[n].name

Init ==
    /\ pc = "start"
    /\ pdf_files \in {q \in FileLists(MaxDocs) : Distinct(q)}
    /\ doc_idx = 0
    /\ page_idx = 0
    /\ payments = <<>>
    /\ summaries = <<>>
    /\ all_payments = <<>>
    /\ all_summaries = <<>>
    /\ returned = None
    /\ output_file = None
    /\ console = <<>>
    /\ attempted = <<>>
    /\ DateIdle
    /\ PageIdle

Next ==
    \/ NoPdfFiles
    \/ FoundPdfFiles
    \/ OpenPdf
    \/ OpenFails
    \/ ReadFails
    \/ SkipPage
    \/ ProcessTextPage
    \/ ClosePdf
    \/ ReturnFrames
    \/ ReturnNoData
    \/ SaveToExcel
    \/ NothingToSave

Spec == Init /\ [][Next]_vars

(***************************************************************************)
(* Properties.  The definitions below state the claims; they are not part  *)
(* of the model of the program.                                            *)
(***************************************************************************)

\* f[1] \o ... \o f[n]
RECURSIVE Concat(_, _)
Concat(f, n) == IF n = 0 THEN <<>> ELSE Concat(f, n - 1) \o f[n]

\* a page from which extract_text() gives a non-empty text
WithText(page) == page.kind = "ok" /\ page.text # None /\ Len(page.text.val) > 0

\* what the parsers make of page n of a document, numbered n
RecordsOfPage(doc, n) == ProcessPage(doc.pages[n].text.val, doc.name, n)

PaymentsOfDocument(doc) ==
    Concat([n \in 1..Len(doc.pages) |->
              IF WithText(doc.pages[n]) THEN RecordsOfPage(doc, n).payments ELSE <<>>],
           Len(doc.pages))

SummariesOfDocument(doc) ==
    Concat([n \in 1..Len(doc.pages) |->
              IF WithText(doc.pages[n]) THEN <<RecordsOfPage(doc, n).summary>> ELSE <<>>],
           Len(doc.pages))

\* the records of all documents, in document order and page order
ExpectedPayments ==
    Concat([k \in 1..Len(pdf_files) |-> PaymentsOfDocument(pdf_files[k])],
           Len(pdf_files))

ExpectedSummaries ==
    Concat([k \in 1..Len(pdf_files) |-> SummariesOfDocument(pdf_files[k])],
           Len(pdf_files))

HasReturned == pc \in {"returned", "done"}

Reported(message) == \E n \in DOMAIN console : console[n].msg = message

NoFieldSet(r) ==
    /\ r.gross_pay = None /\ r.tax = None /\ r.nett_pay = None
    /\ r.ytd_gross_pay = None /\ r.ytd_tax = None /\ r.ytd_nett_pay = None
    /\ r.disbursement_amount = None

\* the pages with text among the first k - 1 pages of a document
TextPagesBefore(doc, k) ==
    {n \in 1..Len(doc.pages) : n < k /\ WithText(doc.pages[n])}

\* C1: while PDFProcessor.process runs, and when it returns, its summaries list
\* holds exactly one SummaryRecord for every page with a non-empty text among
\* the pages visited, in page order, and none for a page without text; a
\* document none of whose pages has text leaves both lists empty.
C1_OneSummaryPerTextPage ==
    pc = "pages" =>
        /\ Len(summaries) = Cardinality(TextPagesBefore(pdf_files[doc_idx], page_idx))
        /\ {summaries[n].page : n \in DOMAIN summaries}
              = TextPagesBefore(pdf_files[doc_idx], page_idx)
        /\ \A m, n \in DOMAIN summaries : m < n => summaries[m].page < summaries[n].page
        /\ (TextPagesBefore(pdf_files[doc_idx], page_idx) = {} => payments = <<>>)

\* process is about to return for a document that has a page without text and
\* a page with text on which no summary field matched
C1_Witness ==
    /\ pc = "pages"
    /\ page_idx > Len(CurrentPages)
    /\ \E n \in DOMAIN CurrentPages : ~WithText(CurrentPages[n])
    /\ \E n \in DOMAIN summaries : NoFieldSet(summaries[n])
    /\ Len(summaries) = 2

\* C2 as stated: whenever a document is found, process_all_pdfs returns all
\* payment records and all summary records of all documents, in order.
C2_ReturnsAllRecords ==
    (HasReturned /\ pdf_files # <<>>) =>
        returned = Some(to_dataframes(ExpectedPayments, ExpectedSummaries))

\* C2 amended: whenever a payment record is extracted from some document,
\* process_all_pdfs returns all payment records and all summary records of all
\* documents, in document order and page order.
C2_ReturnsAllRecordsIfAnyPayment ==
    (HasReturned /\ ExpectedPayments # <<>>) =>
        returned = Some(to_dataframes(ExpectedPayments, ExpectedSummaries))

\* process_all_pdfs has returned the records of three documents, two of which
\* gave payments
C2_Witness ==
    /\ pc = "returned"
    /\ Len(pdf_files) = 3
    /\ \E m, n \in DOMAIN all_payments : all_payments[m].pdf_file # all_payments[n].pdf_file
    /\ Len(returned.val.summaries_df.rows) > Len(pdf_files)
    /\ Len(returned.val.payments_df.rows) = Len(all_payments)

\* C3: the output file is only ever written in a run in which a payment record
\* was extracted; and when process_all_pdfs returns with no document found or no
\* payment record extracted, it has reported that, it returns two empty
\* frames, and no output file is written.
C3_NoDataNoOutput ==
    /\ output_file # None => ExpectedPayments # <<>>
    /\ (HasReturned /\ (pdf_files = <<>> \/ ExpectedPayments = <<>>)) =>
          /\ returned = Some(Frames(EmptyDataFrame, EmptyDataFrame))
          /\ output_file = None
          /\ Reported(IF pdf_files = <<>> THEN "no PDF files found"
                      ELSE "no data extracted")

\* main has ended without writing, for documents that gave summary records and
\* no payment record
C3_Witness ==
    /\ pc = "done"
    /\ pdf_files # <<>>
    /\ all_summaries # <<>>
    /\ all_payments = <<>>
    /\ output_file = None
    /\ Reported("no data extracted")

\* a document that cannot be opened, or a page of which cannot be read
Unreadable(doc) ==
    ~doc.opens \/ \E n \in DOMAIN doc.pages : doc.pages[n].kind = "error"

\* C9: documents are attempted in order, each at most once; no document is
\* attempted after one that cannot be opened or read; and once such a document
\* has been attempted, process_all_pdfs returns nothing and no output file is
\* written, whatever was accumulated before.
C9_FailureAbortsRun ==
    /\ Len(attempted) <= Len(pdf_files)
    /\ \A k \in DOMAIN attempted : attempted[k] = pdf_files[k].name
    /\ \A k \in DOMAIN attempted :
          Unreadable(pdf_files[k]) =>
              /\ k = Len(attempted)
              /\ returned = None
              /\ output_file = None

\* the second of three documents failed after the first gave payment records
C9_Witness ==
    /\ pc = "aborted"
    /\ Len(pdf_files) = 3
    /\ doc_idx = 2
    /\ Unreadable(pdf_files[2])
    /\ all_payments # <<>>
    /\ returned = None

\* C10: every accumulated PaymentRecord has exactly one accumulated
\* SummaryRecord of the same file and page, with the same pay period and paid
\* date; and its page is the position, among all pages of its document, of the
\* page it was extracted from.
C10_PaymentHasItsSummary ==
    \A n \in DOMAIN all_payments :
        /\ Cardinality({k \in DOMAIN all_summaries :
                          /\ all_summaries[k].pdf_file = all_payments[n].pdf_file
                          /\ all_summaries[k].page = all_payments[n].page}) = 1
        /\ \A k \in DOMAIN all_summaries :
              (/\ all_summaries[k].pdf_file = all_payments[n].pdf_file
               /\ all_summaries[k].page = all_payments[n].page)
              => /\ all_summaries[k].pay_period = all_payments[n].pay_period
                 /\ all_summaries[k].paid_date = all_payments[n].paid_date
        /\ \E d \in DOMAIN pdf_files :
              /\ pdf_files[d].name = all_payments[n].pdf_file
              /\ all_payments[n].page \in DOMAIN pdf_files[d].pages
              /\ WithText(pdf_files[d].pages[all_payments[n].page])
              /\ \E r \in DOMAIN RecordsOfPage(pdf_files[d], all_payments[n].page).payments :
                    RecordsOfPage(pdf_files[d], all_payments[n].page).payments[r]
                        = all_payments[n]

\* records of two documents are accumulated, among them two of the second page
\* of a document whose first page has no text
C10_Witness ==
    /\ \E m, n \in DOMAIN all_payments :
          /\ m # n
          /\ all_payments[m].page = 2 /\ all_payments[n].page = 2
          /\ all_payments[m].pdf_file = all_payments[n].pdf_file
    /\ \E m, n \in DOMAIN all_payments : all_payments[m].pdf_file # all_payments[n].pdf_file
    /\ \E d \in DOMAIN pdf_files : ~WithText(pdf_files[d].pages[1]) /\ pdf_files[d].opens
                                   /\ Len(pdf_files[d].pages) > 1
                                   /\ \E n \in DOMAIN all_payments :
                                         all_payments[n].pdf_file = pdf_files[d].name

DeductionsAt(n) == StartsWith(Strip(lines[n]), <<"D", "e", "d", "u", "c", "t", "i", "o", "n", "s">>)

\* C4 as stated: no captured line comes after a line starting with
\* "Deductions", wherever that line is.
C4_NothingAfterDeductions ==
    \A k \in DOMAIN captured :
        \A d \in 1..(captured[k] - 1) : ~DeductionsAt(d)

\* C4 amended: no captured line comes after a line starting with "Deductions"
\* that itself comes after the start of the Payments section.
C4_NothingAfterDeductionsInSection ==
    \A k \in DOMAIN captured :
        \A d \in 1..(captured[k] - 1) :
            DeductionsAt(d) => \A h \in 1..(d - 1) : ~IsSectionStart(lines, h)

\* extract has returned a payment for a page with a further payment line after
\* the "Deductions" line that ended the section
C4_Witness ==
    /\ pc = "payment_returned"
    /\ captured # <<>>
    /\ \E d, n \in DOMAIN lines :
          /\ captured[Len(captured)] < d /\ d < n
          /\ DeductionsAt(d)
          /\ MatchPaymentPattern(lines[n]).matched

\* the three states of the scan, told from the lines alone
SectionStarts == {n \in DOMAIN lines : IsSectionStart(lines, n)}

\* the end markers that follow the first section start
SectionEnds(starts) ==
    IF starts = {} THEN {}
    ELSE {n \in (Min(starts) + 1)..Len(lines) : IsSectionEnd(lines[n])}

\* the lines scanned while Inside: after the first section start and before the
\* first end marker that follows it
InsideLines(starts, ends) ==
    IF starts = {} THEN {}
    ELSE (Min(starts) + 1)..(IF ends = {} THEN Len(lines) ELSE Min(ends) - 1)

PaymentLinesInside(starts, ends, upto) ==
    {n \in InsideLines(starts, ends) \ starts :
        n <= upto /\ MatchPaymentPattern(lines[n]).matched}

RecordOfMatch(m) ==
    PaymentRecord(FileName, PageNum, pay_period_info,
                  parse_reference_date(m.g3), Float(m.g1), Float(m.g2), Float(m.g4))

RecordOfLine(n) == RecordOfMatch(MatchPaymentPattern(lines[n]))

\* the lines the scan has passed: all of them once it has returned at the end
\* of the page, those before the end marker once it has returned there
Scanned ==
    IF pc = "payment_returned" /\ i > Len(lines) THEN Len(lines) ELSE i - 1

ScanAgrees(starts, ends) ==
    /\ {captured[k] : k \in DOMAIN captured} = PaymentLinesInside(starts, ends, Scanned)
    /\ \A m, n \in DOMAIN captured : m < n => captured[m] < captured[n]
    /\ found = [k \in DOMAIN captured |-> RecordOfLine(captured[k])]
    /\ pc = "payment_loop" =>
          /\ in_payments_section = (\E n \in starts : n < i)
          /\ \A n \in ends : n >= i
    /\ (pc = "payment_returned" /\ i <= Len(lines)) =>
          /\ ends # {}
          /\ i = Min(ends)

\* extract raises only at a line scanned while Inside that matches the payment
\* pattern with a number float() rejects
ScanRaises(starts, ends, m) ==
    /\ i \in InsideLines(starts, ends) \ starts
    /\ m.matched
    /\ ~(Float(m.g1).ok /\ Float(m.g2).ok /\ Float(m.g4).ok)

\* C6: PaymentParser.extract is a scan with the states Outside, Inside and
\* Terminated.  It is Inside from the first line starting with "Payments" that
\* has "Hours" on it or on the next line, until the first line starting with
\* "Deductions" or "Benefits" after it, where it returns; the list it holds,
\* and returns, has one PaymentRecord, in line order, for each line matching
\* the payment pattern scanned while Inside, and for no other line.  (It does
\* not return when such a line has a number that float() rejects.)
C6_ThreeStateScan ==
    /\ pc \in {"payment_loop", "payment_returned"} =>
          ScanAgrees(SectionStarts, SectionEnds(SectionStarts))
    /\ pc = "payment_raised" =>
          ScanRaises(SectionStarts, SectionEnds(SectionStarts),
                     MatchPaymentPattern(lines[i]))

\* extract has returned at an end marker that a section start with "Hours" and
\* a payment line follow
C6_Witness ==
    /\ pc = "payment_returned"
    /\ i < Len(lines)
    /\ \E h, n \in DOMAIN lines :
          /\ i < h /\ h < n
          /\ IsSectionStart(lines, h)
          /\ MatchPaymentPattern(lines[n]).matched
          /\ Float(MatchPaymentPattern(lines[n]).g1).ok

\* the ways a line reads "... Pay Period X to Y Paid Z", as <<X, Y, Z>>
MarkAt(line, mark) == {k \in 1..Len(line) : HasAt(line, k, mark)}

Readings(line) ==
    {<<SubSeq(line, t[1] + 11, t[2] - 1), SubSeq(line, t[2] + 4, t[3] - 1),
       SubSeq(line, t[3] + 6, Len(line))>> :
        t \in {u \in MarkAt(line, <<"P", "a", "y", " ", "P", "e", "r", "i", "o", "d", " ">>) \X MarkAt(line, <<" ", "t", "o", " ">>)
                         \X MarkAt(line, <<" ", "P", "a", "i", "d", " ">>) :
                  /\ u[2] > u[1] + 11
                  /\ u[3] > u[2] + 4
                  /\ u[3] + 6 <= Len(line)}}

PayPeriodLines == {n \in DOMAIN lines : Readings(lines[n]) # {}}

\* C7: PayPeriodParser.extract returns period "X to Y" and paid date "Z" read
\* from the first line of the page of the form "Pay Period X to Y Paid Z",
\* whatever lines follow it, and both fields unset when the page has no such
\* line.
C7_FirstPayPeriodLine ==
    pc = "period_done" =>
        IF PayPeriodLines = {}
        THEN pay_period_info = PayPeriodInfo(None, None)
        ELSE \E r \in Readings(lines[Min(PayPeriodLines)]) :
                pay_period_info = PayPeriodInfo(Some(r[1] \o <<" ", "t", "o", " ">> \o r[2]), Some(r[3]))

\* extract has returned for a page with two pay-period lines that read
\* differently
C7_Witness ==
    /\ pc = "period_done"
    /\ \E m, n \in PayPeriodLines :
          /\ m < n
          /\ Readings(lines[m]) \cap Readings(lines[n]) = {}
    /\ pay_period_info.period # None

\* C5 as stated: a line whose trimmed text is "Tax", two numbers following,
\* and which does not itself start with "Tax", sets tax and ytd_tax to the two
\* numbers (the last such line of the page deciding).
C5_IndentedTaxSet ==
    (pc = "summary_done" /\ ~summary_out.raised) =>
        \A n \in DOMAIN lines :
            (/\ ~StartsWith(lines[n], TAX_LABEL)
             /\ TwoNumbersAt(Strip(lines[n]), 1, TAX_LABEL).matched
             /\ \A m \in DOMAIN lines :
                   m > n => ~TwoNumbersAt(Strip(lines[m]), 1, TAX_LABEL).matched)
            => /\ summary_out.summary.tax
                    = Some(Float(TwoNumbersAt(Strip(lines[n]), 1, TAX_LABEL).g1))
               /\ summary_out.summary.ytd_tax
                    = Some(Float(TwoNumbersAt(Strip(lines[n]), 1, TAX_LABEL).g2))

\* two digits, a three-letter month abbreviation, two digits
CompactFormat(token) ==
    /\ Len(token) = 7
    /\ token[1] \in Digit /\ token[2] \in Digit
    /\ \E m \in 1..12 : Lower(SubSeq(token, 3, 5)) = MonthAbbr[m]
    /\ token[6] \in Digit /\ token[7] \in Digit

\* C8 as stated: a token that is not of the compact format is returned
\* unchanged.
C8_OtherTokensUnchanged ==
    (pc = "date_done" /\ ~CompactFormat(ref_date)) => work_date = Some(ref_date)

MonthLengths == <<31, 28, 31, 30, 31, 30, 31, 31, 30, 31, 30, 31>>

\* the day of the month a day part names: one digit, two digits, or one digit
\* after a zero or a space; 0 when it names none
DayNamed(part) ==
    IF Len(part) = 1 /\ part[1] \in Digit THEN ToNat(part)
    ELSE IF Len(part) = 2 /\ part[1] \in Digit \cup {" "} /\ part[2] \in Digit
    THEN ToNat(SubSeq(part, IF part[1] = " " THEN 2 ELSE 1, 2))
    ELSE 0

\* a date of the calendar: a day part, a month abbreviation in any letter case
\* and a two-digit year (00-68 of 2000, 69-99 of 1900)
NamesDate(token) ==
    \E n \in {1, 2} :
        /\ Len(token) = n + 5
        /\ token[n + 4] \in Digit /\ token[n + 5] \in Digit
        /\ \E m \in 1..12 :
              /\ Lower(SubSeq(token, n + 1, n + 3)) = MonthAbbr[m]
              /\ DayNamed(SubSeq(token, 1, n)) >= 1
              /\ DayNamed(SubSeq(token, 1, n))
                    <= IF m = 2 /\ ToNat(SubSeq(token, n + 4, n + 5)) % 4 = 0
                       THEN 29 ELSE MonthLengths[m]

\* C8 amended: a token that does not name a date of the calendar, as a day of
\* one or two digits, a month abbreviation and a two-digit year, is returned
\* unchanged.
C8_NonDatesUnchanged ==
    (pc = "date_done" /\ ~NamesDate(ref_date)) => work_date = Some(ref_date)

\* a token of the compact format that names no date has been returned unchanged
C8_Witness ==
    /\ pc = "date_done"
    /\ CompactFormat(ref_date)
    /\ ~NamesDate(ref_date)
    /\ work_date = Some(ref_date)

=============================================================================
